---- MODULE Spec2Model ----
(***************************************************************************)
(* Exercise tracker REST API (src/index.js).  The file holds two variants  *)
(* of the same four-endpoint service: lines 1-213 (variant 1: unique       *)
(* usernames, explicit validation, plain-text errors) and lines 214-356    *)
(* (variant 2: no unique index, validation left to the schema, JSON        *)
(* errors).  `variant` selects which one serves the requests of a          *)
(* behaviour.                                                              *)
(*                                                                         *)
(* A handler is modelled by one step per await: the step in which the      *)
(* request arrives (and, for the two /:_id routes, User.findById reads the *)
(* store), and the step in which the handler continues, performs its       *)
(* write or query and responds.  Other requests may run between the two.   *)
(*                                                                         *)
(* The document store is assumed reachable: connection failures are not    *)
(* modelled.                                                               *)
(***************************************************************************)
EXTENDS Integers, Sequences, FiniteSets

VARIABLES variant, users, exercises, clock, pend, res, created, added

vars == <<variant, users, exercises, clock, pend, res, created, added>>

----------------------------------------------------------------------------
(* Bounds of the model *)

MaxUsers == 2

MaxExercises == 2

MaxClock == 1

----------------------------------------------------------------------------
(* JavaScript values *)

\* A field absent from req.body / req.query, for text fields.
undefined == "undefined"

\* The same for fields the code converts to numbers; such a field is a
\* sequence of one-character strings, so that the conversions can read it.
undefinedChars == <<"undefined">>

\* JavaScript truthiness of a text field: undefined and "" are falsy.
Truthy(s) == s # undefined /\ s # ""

\* JavaScript truthiness of a character-sequence field.
TruthyChars(s) == s # undefinedChars /\ s # <<>>

\* Numbers are fixed-point with one fractional digit: n is held as 10 * n.
Scale == 10

\* The value NaN, outside the range of every number the model forms.
NaN == -1000000

isNaN(x) == x = NaN

Digits == {"0", "1", "2", "3", "4", "5", "6", "7", "8", "9"}

DigitVal(c) ==
    CASE c = "0" -> 0 [] c = "1" -> 1 [] c = "2" -> 2 [] c = "3" -> 3
      [] c = "4" -> 4 [] c = "5" -> 5 [] c = "6" -> 6 [] c = "7" -> 7
      [] c = "8" -> 8 [] c = "9" -> 9

\* The longest run of digits of s starting at position i.
RECURSIVE LeadingDigits(_, _)
LeadingDigits(s, i) ==
    IF i <= Len(s) /\ s[i] \in Digits
    THEN <<s[i]>> \o LeadingDigits(s, i + 1)
    ELSE <<>>

RECURSIVE DecimalValue(_)
DecimalValue(ds) ==
    IF ds = <<>> THEN 0
    ELSE 10 * DecimalValue(SubSeq(ds, 1, Len(ds) - 1)) + DigitVal(ds[Len(ds)])

SignOf(s) == IF Len(s) >= 1 /\ s[1] = "-" THEN -1 ELSE 1

AfterSign(s) == IF Len(s) >= 1 /\ s[1] \in {"-", "+"} THEN 2 ELSE 1

\* parseInt(s): optional sign, then the leading digits; what follows them is
\* ignored; NaN when there is no leading digit.
parseInt(s) ==
    IF s = undefinedChars THEN NaN
    ELSE LET ds == LeadingDigits(s, AfterSign(s))
         IN  IF ds = <<>> THEN NaN
             ELSE SignOf(s) * DecimalValue(ds) * Scale

\* Number(s): the whole string must be a decimal numeral; "" is 0.  Inputs
\* carry at most one fractional digit.
Number(s) ==
    IF s = undefinedChars THEN NaN
    ELSE IF s = <<>> THEN 0
    ELSE LET int    == LeadingDigits(s, AfterSign(s))
             dot    == AfterSign(s) + Len(int)
             hasDot == dot <= Len(s) /\ s[dot] = "."
             frac   == IF hasDot THEN LeadingDigits(s, dot + 1) ELSE <<>>
             end    == dot + (IF hasDot THEN 1 + Len(frac) ELSE 0)
         IN  IF end # Len(s) + 1 \/ (int = <<>> /\ frac = <<>>) THEN NaN
             ELSE SignOf(s) * (DecimalValue(int) * Scale
                               + (IF frac = <<>> THEN 0 ELSE DigitVal(frac[1])))

\* Whether a number (in its fixed-point form) is a whole number.
IsWhole(x) == ~isNaN(x) /\ x % Scale = 0

----------------------------------------------------------------------------
(* Dates.  A Date is a time value in ticks since the epoch, TicksPerDay    *)
(* ticks to the day, or InvalidDate.                                       *)

TicksPerDay == 2

InvalidDate == -1

\* new Date(s) for the date strings of the model; every other string does
\* not parse.
NewDate(s) ==
    CASE s = "1970-01-01" -> 0
      [] s = "1970-01-02" -> TicksPerDay
      [] s = "1970-01-02T12:00Z" -> TicksPerDay + 1
      [] s = "1970-01-03" -> 2 * TicksPerDay
      [] OTHER -> InvalidDate

\* Date.prototype.toDateString(): the calendar date, the time of day dropped.
toDateString(t) ==
    LET day == t \div TicksPerDay
    IN  CASE day = 0 -> "Thu Jan 01 1970"
          [] day = 1 -> "Fri Jan 02 1970"
          [] day = 2 -> "Sat Jan 03 1970"
          [] day = 3 -> "Sun Jan 04 1970"
          [] day = 4 -> "Mon Jan 05 1970"
          [] OTHER -> "later"

\* The date part of Date.prototype.toISOString().
toISODate(t) ==
    LET day == t \div TicksPerDay
    IN  CASE day = 0 -> "1970-01-01"
          [] day = 1 -> "1970-01-02"
          [] day = 2 -> "1970-01-03"
          [] OTHER -> "later"

----------------------------------------------------------------------------
(* Responses.  `err` is the exception the handler's catch block caught     *)
(* ("none" when the handler answered without one).                         *)

Idle == [op |-> "idle"]

\* A response is held with the request it answers.
NoResponse == [req |-> Idle, reply |-> [type |-> "none"]]

\* Variant 1: res.status(code).send(text).
SendText(code, text, error) ==
    [type |-> "error", status |-> code, format |-> "text",
     message |-> text, err |-> error]

\* Variant 2: res.json({error: text}) (status 200) or
\* res.status(500).json({error: text}).
SendJsonError(code, text, error) ==
    [type |-> "error", status |-> code, format |-> "json",
     message |-> text, err |-> error]

----------------------------------------------------------------------------
(* The document store, through mongoose *)

\* A string that casts to an ObjectId.  The path parameter :_id is an
\* integer here: 0 stands for a string that is no ObjectId, k >= 1 for the
\* k-th ObjectId.
IsObjectId(id) == id >= 1

\* NewObjectId with a bug: the same _id for every document.
NewObjectIdRepeated(us) == 1

\* The _id of a new document: ObjectIds are never repeated.
NewObjectId(us) == Len(us) + 1

\* FindById with a bug: the query ignores the id (findOne() of any user).
FindOne(us, id) ==
    IF ~IsObjectId(id) THEN [tag |-> "CastError"]
    ELSE IF Len(us) >= 1
         THEN [tag |-> "doc", _id |-> us[1]._id, username |-> us[1].username]
         ELSE [tag |-> "null"]

\* User.findById(id): a CastError for a malformed id, else the user document
\* or null.
FindById(us, id) ==
    IF ~IsObjectId(id) THEN [tag |-> "CastError"]
    ELSE IF \E i \in 1..Len(us) : us[i]._id = id
         THEN LET i == CHOOSE i \in 1..Len(us) : us[i]._id = id
              IN  [tag |-> "doc", _id |-> us[i]._id, username |-> us[i].username]
         ELSE [tag |-> "null"]

\* Whether the users collection has a unique index on username
\* (unique: true in userSchema).
UniqueUsername(v) == v = 1

\* The insert of newUser.save() is rejected with E11000 duplicate key.
DuplicateKey(v, us, username) ==
    UniqueUsername(v) /\ \E i \in 1..Len(us) : us[i].username = username

\* Document validation of exerciseSchema on save(): description is required
\* (an empty string does not satisfy required), duration must cast to a
\* Number (NaN does not), date must cast to a Date (an Invalid Date does not).
ExerciseValid(doc) ==
    /\ Truthy(doc.description)
    /\ ~isNaN(doc.duration)
    /\ doc.date # InvalidDate

\* Matches with a bug: $gt and $lt in place of $gte and $lte.
MatchesExclusive(e, userId, gte, lte) ==
    /\ e.userId = userId
    /\ (gte.set => e.date > gte.date)
    /\ (lte.set => e.date < lte.date)

\* Whether a document matches the filter {userId, date: {$gte, $lte}}; a
\* bound is [set, date], set = FALSE when the filter has no such bound.
Matches(e, userId, gte, lte) ==
    /\ e.userId = userId
    /\ (gte.set => e.date >= gte.date)
    /\ (lte.set => e.date <= lte.date)

\* Exercise.find(filter): the positions of the matching documents.
Matching(exs, userId, gte, lte) ==
    {i \in 1..Len(exs) : Matches(exs[i], userId, gte, lte)}

\* sort({date: 1}): every order of the matching documents by ascending date;
\* the order of documents of equal date is not fixed by the store.
SortedOrders(exs, I) ==
    {f \in [1..Cardinality(I) -> I] :
        /\ \A i, j \in 1..Cardinality(I) : i # j => f[i] # f[j]
        /\ \A i, j \in 1..Cardinality(I) : i < j => exs[f[i]].date <= exs[f[j]].date}

Min(a, b) == IF a <= b THEN a ELSE b

Abs(n) == IF n < 0 THEN -n ELSE n

\* cursor.limit(n): 0 is no limit; a negative limit returns |n| documents.
Limited(seq, n) ==
    IF n = 0 THEN seq ELSE SubSeq(seq, 1, Min(Abs(n), Len(seq)))

----------------------------------------------------------------------------
(* POST /api/users *)

\* CreateUserReply with a bug: the username is checked after the save.
CreateUserReplyLateCheck(v, us, username) ==
    IF DuplicateKey(v, us, username)
    THEN [save |-> FALSE,
          res  |-> SendText(400, "Username already exists", "E11000")]
    ELSE LET savedUser == [_id |-> NewObjectId(us), username |-> username]
         IN  [save |-> TRUE,
              doc  |-> savedUser,
              res  |-> IF ~Truthy(username)
                       THEN IF v = 1
                            THEN SendText(400, "Username is required", "none")
                            ELSE SendJsonError(200, "Username required", "none")
                       ELSE [type |-> "user", status |-> 200,
                             username |-> savedUser.username,
                             _id |-> savedUser._id]]

\* What the handler does with the request once it runs: whether it inserts
\* a user, and its response.
CreateUserReply(v, us, username) ==
    IF ~Truthy(username)
    THEN [save |-> FALSE,
          res  |-> IF v = 1
                   THEN SendText(400, "Username is required", "none")
                   ELSE SendJsonError(200, "Username required", "none")]
    ELSE IF DuplicateKey(v, us, username)
    THEN [save |-> FALSE,
          res  |-> SendText(400, "Username already exists", "E11000")]
    ELSE LET savedUser == [_id |-> NewObjectId(us), username |-> username]
         IN  [save |-> TRUE,
              doc  |-> savedUser,
              res  |-> [type |-> "user", status |-> 200,
                        username |-> savedUser.username, _id |-> savedUser._id]]

----------------------------------------------------------------------------
(* POST /api/users/:_id/exercises *)

\* if (!user)
UserMissing(user) == user.tag = "null"

\* Variant 1: !description || !duration || isNaN(Number(duration))
RequiredInvalid(r) ==
    \/ ~Truthy(r.description)
    \/ ~TruthyChars(r.duration)
    \/ isNaN(Number(r.duration))

\* ExerciseDate with a bug: the supplied date is ignored.
ExerciseDateNow(date, now) == now

\* date ? new Date(date) : new Date()
ExerciseDate(date, now) == IF Truthy(date) THEN NewDate(date) ELSE now

\* The duration handed to the Exercise document: parseInt(duration) in
\* variant 1, Number(duration) in variant 2.
DurationOf(v, duration) ==
    IF v = 1 THEN parseInt(duration) ELSE Number(duration)

\* new Exercise({userId, description, duration, date})
NewExercise(v, r, now) ==
    [userId      |-> IF v = 1 THEN r._id ELSE r.user._id,
     description |-> r.description,
     duration    |-> DurationOf(v, r.duration),
     date        |-> ExerciseDate(r.date, now)]

ServerError(v, text, error) ==
    IF v = 1 THEN SendText(500, text, error)
    ELSE SendJsonError(500, "Server error", error)

InvalidUserId(v, text) ==
    IF v = 1 THEN SendText(400, "Invalid User ID format", "CastError")
    ELSE ServerError(v, text, "CastError")

\* UserNotFound with a bug: the missing user is reported as a server error.
UserNotFoundAsServerError(v) == ServerError(v, "Server error", "none")

UserNotFound(v) ==
    IF v = 1 THEN SendText(404, "User not found", "none")
    ELSE SendJsonError(200, "User not found", "none")

\* The handler from the result of findById on: whether it saves an exercise,
\* which, and its response.  r is the request with the looked-up user.
AddExerciseReply(v, r, now) ==
    IF r.user.tag = "CastError"
    THEN [save |-> FALSE, res |-> InvalidUserId(v, "Server error adding exercise")]
    ELSE IF UserMissing(r.user)
    THEN [save |-> FALSE, res |-> UserNotFound(v)]
    ELSE IF v = 1 /\ RequiredInvalid(r)
    THEN [save |-> FALSE,
          res  |-> SendText(400,
                     "Description and a valid numeric duration are required",
                     "none")]
    ELSE IF v = 1 /\ ExerciseDate(r.date, now) = InvalidDate
    THEN [save |-> FALSE,
          res  |-> SendText(400, "Invalid date format. Use yyyy-mm-dd.", "none")]
    ELSE LET doc == NewExercise(v, r, now)
         IN  IF ~ExerciseValid(doc)
             THEN [save |-> FALSE,
                   res  |-> ServerError(v, "Server error adding exercise",
                                        "ValidationError")]
             ELSE [save |-> TRUE,
                   doc  |-> doc,
                   res  |-> [type        |-> "exercise",
                             status      |-> 200,
                             _id         |-> r.user._id,
                             username    |-> r.user.username,
                             date        |-> toDateString(doc.date),
                             duration    |-> doc.duration,
                             description |-> doc.description]]

----------------------------------------------------------------------------
(* GET /api/users/:_id/logs *)

\* if (from) dateFilter.$gte = new Date(from), and the same for to / $lte.
DateBound(s) ==
    IF Truthy(s) THEN [set |-> TRUE, date |-> NewDate(s)]
    ELSE [set |-> FALSE, date |-> InvalidDate]

\* The filter holds an Invalid Date: the query fails with a CastError.
FilterCastError(gte, lte) ==
    \/ gte.set /\ gte.date = InvalidDate
    \/ lte.set /\ lte.date = InvalidDate

\* The limit given to the query: none, a whole number n, or a value that is
\* no whole number.  Variant 1: limit && !isNaN(parseInt(limit)), then
\* parseInt(limit); variant 2: if (limit), then Number(limit).
LimitArg(v, limit) ==
    IF v = 1
    THEN IF TruthyChars(limit) /\ ~isNaN(parseInt(limit))
         THEN [kind |-> "n", n |-> parseInt(limit) \div Scale]
         ELSE [kind |-> "none"]
    ELSE IF TruthyChars(limit)
         THEN IF IsWhole(Number(limit))
              THEN [kind |-> "n", n |-> Number(limit) \div Scale]
              ELSE [kind |-> "NaN"]
         ELSE [kind |-> "none"]

\* LogEntry with a bug: the date in ISO form, not toDateString().
LogEntryIso(e) ==
    [description |-> e.description, duration |-> e.duration,
     date |-> toISODate(e.date)]

\* exercises.map(e => ({description, duration, date: e.date.toDateString()}))
LogEntry(e) ==
    [description |-> e.description, duration |-> e.duration,
     date |-> toDateString(e.date)]

LogResponse(user, docs) ==
    [type     |-> "log",
     status   |-> 200,
     _id      |-> user._id,
     username |-> user.username,
     count    |-> Len(docs),
     log      |-> [i \in 1..Len(docs) |-> LogEntry(docs[i])]]

\* The documents the query returns, for one order the sort may produce.
QueryResult(exs, order, lim) ==
    LET sorted == [i \in 1..Len(order) |-> exs[order[i]]]
    IN  IF lim.kind = "n" THEN Limited(sorted, lim.n) ELSE sorted

\* The responses the handler may give from the result of findById on.  What
\* the store does with a limit that is no whole number is not fixed here: it
\* either rejects the query or applies no limit.
GetLogReplies(v, r, exs) ==
    IF r.user.tag = "CastError"
    THEN {InvalidUserId(v, "Server error fetching logs")}
    ELSE IF UserMissing(r.user)
    THEN {UserNotFound(v)}
    ELSE LET gte == DateBound(r.from)
             lte == DateBound(r.to)
             lim == LimitArg(v, r.limit)
         IN  IF FilterCastError(gte, lte)
             THEN {ServerError(v, "Server error fetching logs", "CastError")}
             ELSE {LogResponse(r.user, QueryResult(exs, order, lim)) :
                     order \in SortedOrders(exs, Matching(exs, r._id, gte, lte))}
                  \cup (IF lim.kind = "NaN"
                        THEN {ServerError(v, "Server error fetching logs",
                                          "MongoError")}
                        ELSE {})

----------------------------------------------------------------------------
(* The requests in flight.  Each of Procs is a client connection carrying  *)
(* one request at a time: pend[p] is its request while the handler waits   *)
(* on the store, res[p] the response to its last request once given.       *)
(* created and added record the successful responses of POST /api/users    *)
(* and POST /api/users/:_id/exercises.                                     *)

Procs == {1, 2}

Init ==
    /\ variant \in {1, 2}
    /\ users = <<>>
    /\ exercises = <<>>
    /\ clock = 0
    /\ pend = [p \in Procs |-> Idle]
    /\ res = [p \in Procs |-> NoResponse]
    /\ created = {}
    /\ added = {}

\* The server's clock advances.
Tick ==
    /\ clock < MaxClock
    /\ clock' = clock + 1
    /\ UNCHANGED <<variant, users, exercises, pend, res, created, added>>

\* POST /api/users arrives.
PostUsers(p, username) ==
    /\ pend[p] = Idle
    /\ pend' = [pend EXCEPT ![p] = [op |-> "POST /api/users", username |-> username]]
    /\ res' = [res EXCEPT ![p] = NoResponse]
    /\ UNCHANGED <<variant, users, exercises, clock, created, added>>

\* The handler runs: newUser.save() and the response.
UsersSave(p) ==
    /\ pend[p].op = "POST /api/users"
    /\ LET r == CreateUserReply(variant, users, pend[p].username)
       IN  /\ r.save => Len(users) < MaxUsers
           /\ users' = IF r.save THEN Append(users, r.doc) ELSE users
           /\ created' = IF r.res.type = "user"
                         THEN created \cup {[_id |-> r.res._id,
                                             username |-> r.res.username]}
                         ELSE created
           /\ res' = [res EXCEPT ![p] = [req |-> pend[p], reply |-> r.res]]
    /\ pend' = [pend EXCEPT ![p] = Idle]
    /\ UNCHANGED <<variant, exercises, clock, added>>

\* GET /api/users arrives.
GetUsers(p) ==
    /\ pend[p] = Idle
    /\ pend' = [pend EXCEPT ![p] = [op |-> "GET /api/users"]]
    /\ res' = [res EXCEPT ![p] = NoResponse]
    /\ UNCHANGED <<variant, users, exercises, clock, created, added>>

\* User.find({}, "username _id") and the response.
UsersFind(p) ==
    /\ pend[p].op = "GET /api/users"
    /\ res' = [res EXCEPT ![p] =
                 [req |-> pend[p],
                  reply |-> [type |-> "users", status |-> 200, users |-> users]]]
    /\ pend' = [pend EXCEPT ![p] = Idle]
    /\ UNCHANGED <<variant, users, exercises, clock, created, added>>

\* POST /api/users/:_id/exercises arrives and User.findById reads the store.
PostExercises(p, id, description, duration, date) ==
    /\ pend[p] = Idle
    /\ pend' = [pend EXCEPT ![p] =
                  [op |-> "POST /api/users/:_id/exercises", _id |-> id,
                   description |-> description, duration |-> duration,
                   date |-> date, user |-> FindById(users, id)]]
    /\ res' = [res EXCEPT ![p] = NoResponse]
    /\ UNCHANGED <<variant, users, exercises, clock, created, added>>

\* The handler continues with the user: validation, newExercise.save() and
\* the response.
ExercisesSave(p) ==
    /\ pend[p].op = "POST /api/users/:_id/exercises"
    /\ LET r == AddExerciseReply(variant, pend[p], clock)
       IN  /\ r.save => Len(exercises) < MaxExercises
           /\ exercises' = IF r.save THEN Append(exercises, r.doc) ELSE exercises
           /\ added' = IF r.res.type = "exercise"
                       THEN added \cup {[userId      |-> r.res._id,
                                         description |-> r.res.description,
                                         duration    |-> r.res.duration,
                                         date        |-> r.res.date]}
                       ELSE added
           /\ res' = [res EXCEPT ![p] = [req |-> pend[p], reply |-> r.res]]
    /\ pend' = [pend EXCEPT ![p] = Idle]
    /\ UNCHANGED <<variant, users, clock, created>>

\* GET /api/users/:_id/logs arrives and User.findById reads the store.
GetLogs(p, id, from, to, limit) ==
    /\ pend[p] = Idle
    /\ pend' = [pend EXCEPT ![p] =
                  [op |-> "GET /api/users/:_id/logs", _id |-> id, from |-> from,
                   to |-> to, limit |-> limit, user |-> FindById(users, id)]]
    /\ res' = [res EXCEPT ![p] = NoResponse]
    /\ UNCHANGED <<variant, users, exercises, clock, created, added>>

\* The handler continues with the user: the query and the response.
LogsQuery(p) ==
    /\ pend[p].op = "GET /api/users/:_id/logs"
    /\ \E response \in GetLogReplies(variant, pend[p], exercises) :
          res' = [res EXCEPT ![p] = [req |-> pend[p], reply |-> response]]
    /\ pend' = [pend EXCEPT ![p] = Idle]
    /\ UNCHANGED <<variant, users, exercises, clock, created, added>>

----------------------------------------------------------------------------
(* The requests of the model.  Each specification below serves every       *)
(* endpoint and draws the inputs of the operation it studies from the      *)
(* wider sets.                                                             *)

\* 0 is no ObjectId; MaxUsers + 1 is an ObjectId no user has.
Ids == {0, 1, MaxUsers + 1}

Descriptions == {undefined, "", "run"}

Durations ==
    {undefinedChars, <<>>, <<"a">>, <<"0">>, <<"3", "0">>, <<"-", "5">>,
     <<"2", ".", "5">>, <<".", "5">>}

Dates ==
    {undefined, "", "garbage", "1970-01-01", "1970-01-02T12:00Z", "1970-01-03"}

Limits == {undefinedChars, <<"a">>, <<"0">>, <<"1">>, <<"2">>, <<"-", "1">>}

\* One connection, every endpoint, every kind of outcome.
Next ==
    \/ Tick
    \/ \E username \in {undefined, "", "alice"} : PostUsers(1, username)
    \/ UsersSave(1)
    \/ GetUsers(1)
    \/ UsersFind(1)
    \/ \E id \in Ids, description \in {"", "run"},
          duration \in {<<"a">>, <<"3", "0">>},
          date \in {undefined, "garbage", "1970-01-01"} :
          PostExercises(1, id, description, duration, date)
    \/ ExercisesSave(1)
    \/ \E id \in Ids, from \in {undefined, "garbage"},
          limit \in {undefinedChars, <<"1">>} :
          GetLogs(1, id, from, undefined, limit)
    \/ LogsQuery(1)

Spec == Init /\ [][Next]_vars

\* Two connections whose requests interleave.
NextConcurrent ==
    \/ \E p \in Procs, username \in {"", "alice", "bob"} : PostUsers(p, username)
    \/ \E p \in Procs : UsersSave(p)
    \/ GetUsers(1)
    \/ UsersFind(1)
    \/ \E p \in Procs, id \in 0..(MaxUsers + 1) :
          PostExercises(p, id, "run", <<"3", "0">>, "1970-01-01")
    \/ \E p \in Procs : ExercisesSave(p)
    \/ \E id \in {1, 2} : GetLogs(1, id, undefined, undefined, undefinedChars)
    \/ LogsQuery(1)

SpecConcurrent == Init /\ [][NextConcurrent]_vars

\* The descriptions and durations of POST /api/users/:_id/exercises.
NextDuration ==
    \/ PostUsers(1, "alice")
    \/ UsersSave(1)
    \/ GetUsers(1)
    \/ UsersFind(1)
    \/ \E id \in {1, MaxUsers + 1}, description \in Descriptions,
          duration \in Durations :
          PostExercises(1, id, description, duration, "1970-01-01")
    \/ ExercisesSave(1)
    \/ GetLogs(1, 1, undefined, undefined, undefinedChars)
    \/ LogsQuery(1)

SpecDuration == Init /\ [][NextDuration]_vars

\* The dates of POST /api/users/:_id/exercises.
NextDate ==
    \/ Tick
    \/ PostUsers(1, "alice")
    \/ UsersSave(1)
    \/ GetUsers(1)
    \/ UsersFind(1)
    \/ \E id \in {1, MaxUsers + 1}, duration \in {<<"3", "0">>, <<"2", ".", "5">>},
          date \in Dates :
          PostExercises(1, id, "run", duration, date)
    \/ ExercisesSave(1)
    \/ GetLogs(1, 1, undefined, undefined, undefinedChars)
    \/ LogsQuery(1)

SpecDate == Init /\ [][NextDate]_vars

\* The filters and limits of GET /api/users/:_id/logs.
NextLog ==
    \/ \E username \in {"alice", "bob"} : PostUsers(1, username)
    \/ UsersSave(1)
    \/ GetUsers(1)
    \/ UsersFind(1)
    \/ \E id \in {1, 2},
          date \in {"1970-01-01", "1970-01-02", "1970-01-02T12:00Z"} :
          PostExercises(1, id, "run", <<"3", "0">>, date)
    \/ ExercisesSave(1)
    \/ \E from \in {undefined, "1970-01-02"}, to \in {undefined, "1970-01-02"},
          limit \in Limits :
          GetLogs(1, 1, from, to, limit)
    \/ \E from \in {"", "garbage"}, to \in {"", "garbage"} :
          GetLogs(1, 1, from, to, undefinedChars)
    \/ LogsQuery(1)

SpecLog == Init /\ [][NextLog]_vars

----------------------------------------------------------------------------
(* The vocabulary of the properties *)

\* The handler of connection p answers its request in this step.
Answers(p, op) == pend[p].op = op /\ pend'[p] = Idle

\* The kinds of failure.  A ValidationError is an explicit validation
\* response of a handler or a schema ValidationError caught by it.
IsValidationError(reply) ==
    /\ reply.type = "error"
    /\ \/ reply.err = "ValidationError"
       \/ reply.message \in
            {"Username is required", "Username required",
             "Description and a valid numeric duration are required",
             "Invalid date format. Use yyyy-mm-dd."}

IsNotFoundError(reply) ==
    reply.type = "error" /\ reply.message = "User not found"

IsDuplicateError(reply) ==
    reply.type = "error" /\ reply.message = "Username already exists"

HasUser(us, id) == \E i \in 1..Len(us) : us[i]._id = id

\* The step adds exactly the exercise e to the store.
Persists(e) == exercises' = Append(exercises, e)

\* A numeral of a non-negative integer, and its value.
IsNonNegativeInteger(s) ==
    s # undefinedChars /\ Len(s) >= 1 /\ \A i \in 1..Len(s) : s[i] \in Digits

\* A bound of the log that is absent, or a date that parses.
BoundOk(s) == ~Truthy(s) \/ NewDate(s) # InvalidDate

\* The exercises the log of request r ranges over.
InRange(e, r) ==
    /\ e.userId = r._id
    /\ (Truthy(r.from) => e.date >= NewDate(r.from))
    /\ (Truthy(r.to) => e.date <= NewDate(r.to))

RangeOf(r) == {i \in 1..Len(exercises) : InRange(exercises[i], r)}

Occurrences(seq, x) == Cardinality({i \in 1..Len(seq) : seq[i] = x})

\* The log holds the entries of the exercises at the positions I, each as
\* often as it occurs there, and nothing else.
LogIsExactly(log, I) ==
    /\ Len(log) = Cardinality(I)
    /\ \A i \in I :
          Occurrences(log, LogEntry(exercises[i]))
            = Cardinality({j \in I : LogEntry(exercises[j]) = LogEntry(exercises[i])})

\* The log holds the first k exercises of the positions I in an ascending
\* order of date.
LogIsFirst(log, I, k) ==
    \E order \in SortedOrders(exercises, I) :
        log = [i \in 1..Min(k, Cardinality(I)) |-> LogEntry(exercises[order[i]])]

----------------------------------------------------------------------------
(* Properties *)

\* C1: a createUser whose username a stored user already holds fails with
\* DuplicateError and adds no user, and the store never holds two users of
\* one username.
C1_OneUserPerUsername ==
    [][/\ \A p \in Procs :
            (Answers(p, "POST /api/users")
               /\ \E i \in 1..Len(users) : users[i].username = pend[p].username)
            => (IsDuplicateError(res'[p].reply) /\ users' = users)
       /\ \A i, j \in 1..Len(users') :
            i # j => users'[i].username # users'[j].username]_vars

\* C2 as stated: addExercise with a user id no stored user has fails with
\* NotFoundError and leaves the exercises as they were.
C2_UnknownIdNotFound ==
    [][\A p \in Procs :
          (Answers(p, "POST /api/users/:_id/exercises")
             /\ ~HasUser(users, pend[p]._id))
          => (IsNotFoundError(res'[p].reply) /\ exercises' = exercises)]_vars

\* C2 amended: with a user id no stored user has, addExercise persists
\* nothing whatever the description, duration and date; it fails with
\* NotFoundError when the id is a well-formed ObjectId, and with the error of
\* the failed cast (no NotFoundError) when it is not.
C2_UnknownIdRejected ==
    [][\A p \in Procs :
          (Answers(p, "POST /api/users/:_id/exercises")
             /\ ~HasUser(users, pend[p]._id))
          => /\ exercises' = exercises
             /\ IF pend[p]._id >= 1
                THEN IsNotFoundError(res'[p].reply)
                ELSE /\ res'[p].reply.type = "error"
                     /\ res'[p].reply.err = "CastError"
                     /\ res'[p].reply.status = (IF variant = 1 THEN 400 ELSE 500)]_vars

\* C2 witness: a request with an unknown well-formed id and an invalid
\* description was answered NotFoundError while an exercise is stored.
C2_Witness ==
    /\ res[1].req.op = "POST /api/users/:_id/exercises"
    /\ res[1].req._id = MaxUsers + 1
    /\ res[1].req.description = ""
    /\ IsNotFoundError(res[1].reply)
    /\ Len(exercises) >= 1

\* C3: exercises are only added, and each exercise added has the userId of a
\* user that is in the store when it is added.
C3_ExerciseUserExisted ==
    [][/\ Len(exercises') >= Len(exercises)
       /\ \A i \in 1..Len(exercises) : exercises'[i] = exercises[i]
       /\ \A i \in (Len(exercises) + 1)..Len(exercises') :
            HasUser(users, exercises'[i].userId)]_vars

\* C3 witness: an exercise of the second user is stored, added by the second
\* connection.
C3_Witness ==
    /\ \E i \in 1..Len(exercises) : exercises[i].userId = 2
    /\ res[2].reply.type = "exercise"
    /\ res[2].reply._id = 2

\* C4: for an existing user and bounds that are absent or parse, the log
\* without a limit holds exactly the user's exercises with from <= date <= to
\* (each bound when present), and count is the number of entries; with a
\* limit it holds only such exercises.
C4_LogIsTheRange ==
    [][\A p \in Procs :
          (Answers(p, "GET /api/users/:_id/logs")
             /\ pend[p].user.tag = "doc"
             /\ BoundOk(pend[p].from) /\ BoundOk(pend[p].to))
          => LET out == res'[p].reply
                 I   == RangeOf(pend[p])
             IN  /\ ~TruthyChars(pend[p].limit)
                      => /\ out.type = "log"
                         /\ LogIsExactly(out.log, I)
                 /\ out.type = "log"
                      => /\ out.count = Len(out.log)
                         /\ out._id = pend[p]._id
                         /\ \E J \in SUBSET I : LogIsExactly(out.log, J)]_vars

\* C4 witness: a log from 1970-01-02 on, without a limit, of one entry: the
\* user's exercise of that very date, and not the user's earlier one.
C4_Witness ==
    /\ res[1].req.op = "GET /api/users/:_id/logs"
    /\ res[1].req.from = "1970-01-02"
    /\ ~Truthy(res[1].req.to)
    /\ ~TruthyChars(res[1].req.limit)
    /\ res[1].reply.type = "log"
    /\ res[1].reply.count = 1
    /\ \E i, j \in 1..Len(exercises) :
          /\ exercises[i].userId = res[1].req._id
          /\ exercises[i].date = NewDate("1970-01-02")
          /\ exercises[j].userId = res[1].req._id
          /\ exercises[j].date = NewDate("1970-01-01")

\* A limit that is present and numeric, and its value.
IsNumeric(limit) == TruthyChars(limit) /\ IsWhole(Number(limit))

LimitValue(limit) == Number(limit) \div Scale

\* The log request of connection p that the limit properties are about: an
\* existing user, bounds that are absent or parse, a numeric limit.
LimitedLog(p) ==
    /\ Answers(p, "GET /api/users/:_id/logs")
    /\ pend[p].user.tag = "doc"
    /\ BoundOk(pend[p].from) /\ BoundOk(pend[p].to)
    /\ IsNumeric(pend[p].limit)

\* C5: with a numeric limit that is a number of entries (0 included), the
\* log is the first limit of the matching exercises by ascending date, so
\* that count = min(limit, number of matching exercises).
C5_LimitCaps ==
    [][\A p \in Procs :
          (LimitedLog(p) /\ LimitValue(pend[p].limit) >= 0)
          => LET out == res'[p].reply
                 I   == RangeOf(pend[p])
                 n   == LimitValue(pend[p].limit)
             IN  /\ out.type = "log"
                 /\ out.count = Min(n, Cardinality(I))
                 /\ LogIsFirst(out.log, I, n)]_vars

\* What the code does with a numeric limit: a positive limit caps the log as
\* C5 says; a limit of 0 caps nothing; a negative limit -k caps as k does.
LimitAsTheStoreAppliesIt ==
    [][\A p \in Procs :
          LimitedLog(p)
          => LET out == res'[p].reply
                 I   == RangeOf(pend[p])
                 n   == LimitValue(pend[p].limit)
                 k   == IF n = 0 THEN Cardinality(I) ELSE IF n < 0 THEN -n ELSE n
             IN  /\ out.type = "log"
                 /\ out.count = Min(k, Cardinality(I))
                 /\ out.count = Len(out.log)
                 /\ LogIsFirst(out.log, I, k)]_vars

\* C6: every exercise a successful addExercise returned for a user is in the
\* user's log taken without from, to and limit, with the description, the
\* duration and the date string of that response.
C6_RoundTrip ==
    [][\A p \in Procs :
          (Answers(p, "GET /api/users/:_id/logs")
             /\ ~Truthy(pend[p].from) /\ ~Truthy(pend[p].to)
             /\ ~TruthyChars(pend[p].limit)
             /\ HasUser(users, pend[p]._id))
          => /\ res'[p].reply.type = "log"
             /\ \A a \in added :
                  a.userId = pend[p]._id
                  => \E i \in 1..Len(res'[p].reply.log) :
                        res'[p].reply.log[i] =
                          [description |-> a.description,
                           duration |-> a.duration, date |-> a.date]]_vars

\* C6 witness: the log of a user holds two exercises that were added, one of
\* them dated by the clock, past midnight of no day.
C6_Witness ==
    /\ res[1].req.op = "GET /api/users/:_id/logs"
    /\ res[1].reply.type = "log"
    /\ res[1].reply.count = 2
    /\ Cardinality({a \in added : a.userId = res[1].req._id}) = 2
    /\ \E i \in 1..Len(exercises) : exercises[i].date % TicksPerDay # 0

\* C7: for an existing user, addExercise succeeds exactly when the
\* description is non-empty and the duration is a non-negative integer, it
\* then stores and returns that integer, and otherwise it fails with
\* ValidationError and persists nothing.
C7_DurationValidated ==
    [][\A p \in Procs :
          (Answers(p, "POST /api/users/:_id/exercises")
             /\ pend[p].user.tag = "doc")
          => LET r   == pend[p]
                 out == res'[p].reply
             IN  IF Truthy(r.description) /\ IsNonNegativeInteger(r.duration)
                 THEN /\ out.type = "exercise"
                      /\ out.duration = DecimalValue(r.duration) * Scale
                      /\ \E e \in {exercises'[i] : i \in 1..Len(exercises')} :
                            Persists(e) /\ e.duration = out.duration
                 ELSE /\ IsValidationError(out)
                      /\ exercises' = exercises]_vars

\* The addExercise request of connection p that the date properties are
\* about: an existing user, a description and a duration that are valid.
DatedExercise(p) ==
    /\ Answers(p, "POST /api/users/:_id/exercises")
    /\ pend[p].user.tag = "doc"
    /\ Truthy(pend[p].description)
    /\ IsNonNegativeInteger(pend[p].duration)

\* The step stores an exercise of the date t and answers with success.
StoresDate(p, t) ==
    /\ res'[p].reply.type = "exercise"
    /\ res'[p].reply.date = toDateString(t)
    /\ Len(exercises') = Len(exercises) + 1
    /\ exercises'[Len(exercises')].date = t
    /\ exercises'[Len(exercises')].userId = pend[p]._id

\* C8 as stated: a supplied date string that does not parse fails with
\* ValidationError and persists nothing, one that parses is stored, and
\* without a date the current time is stored.
C8_DateResolved ==
    [][\A p \in Procs :
          DatedExercise(p)
          => IF pend[p].date = undefined THEN StoresDate(p, clock)
             ELSE IF NewDate(pend[p].date) = InvalidDate
             THEN IsValidationError(res'[p].reply) /\ exercises' = exercises
             ELSE StoresDate(p, NewDate(pend[p].date))]_vars

\* C8 amended: a supplied non-empty date string that does not parse fails
\* with ValidationError and persists nothing, one that parses is stored, and
\* without a date or with an empty date string the current time is stored.
C8_NonEmptyDateResolved ==
    [][\A p \in Procs :
          DatedExercise(p)
          => IF pend[p].date = undefined \/ pend[p].date = ""
             THEN StoresDate(p, clock)
             ELSE IF NewDate(pend[p].date) = InvalidDate
             THEN IsValidationError(res'[p].reply) /\ exercises' = exercises
             ELSE StoresDate(p, NewDate(pend[p].date))]_vars

\* C8 witness: an exercise without a date was stored after the clock had
\* advanced, a date that does not parse was refused after it.
C8_Witness ==
    /\ res[1].req.op = "POST /api/users/:_id/exercises"
    /\ res[1].req.date = "garbage"
    /\ res[1].req.duration = <<"3", "0">>
    /\ IsValidationError(res[1].reply)
    /\ Len(exercises) = 1
    /\ exercises[1].date = 1

\* C9: users are never changed or removed, and listUsers returns exactly
\* the users the createUser responses returned, with those usernames and
\* ids, the ids pairwise distinct.
C9_UsersKept ==
    [][/\ Len(users') >= Len(users)
       /\ \A i \in 1..Len(users) : users'[i] = users[i]
       /\ \A p \in Procs :
            Answers(p, "GET /api/users")
            => LET list == res'[p].reply.users
               IN  /\ res'[p].reply.type = "users"
                   /\ Len(list) = Cardinality(created)
                   /\ {list[i] : i \in 1..Len(list)} = created
                   /\ \A i, j \in 1..Len(list) :
                         i # j => list[i]._id # list[j]._id]_vars

\* C9 witness: listUsers returned two users, created on two connections.
C9_Witness ==
    /\ res[1].reply.type = "users"
    /\ Len(res[1].reply.users) = 2
    /\ Cardinality(created) = 2
    /\ res[2].reply.type = "user"

\* C10: a step changes the store only by answering createUser with success,
\* which appends the returned user and keeps the exercises, or addExercise
\* with success, which appends one exercise and keeps the users; arrivals,
\* listUsers, getLog and every error response change neither collection.
C10_Frame ==
    [][\A p \in Procs :
          LET out == res'[p].reply
          IN  IF Answers(p, "POST /api/users") /\ out.type = "user"
              THEN /\ users' = Append(users, [_id |-> out._id,
                                              username |-> out.username])
                   /\ exercises' = exercises
              ELSE IF Answers(p, "POST /api/users/:_id/exercises")
                      /\ out.type = "exercise"
              THEN /\ Len(exercises') = Len(exercises) + 1
                   /\ SubSeq(exercises', 1, Len(exercises)) = exercises
                   /\ users' = users
              ELSE (\A q \in Procs \ {p} : pend'[q] = pend[q])
                   => (users' = users /\ exercises' = exercises)]_vars

\* C10 witness: a request was refused as a duplicate while users and
\* exercises are stored.
C10_Witness ==
    /\ res[1].req.op = "POST /api/users"
    /\ IsDuplicateError(res[1].reply)
    /\ Len(users) >= 1
    /\ Len(exercises) >= 1

====
